---- MODULE Spec2Model ----
(***************************************************************************)
(* A model of the route layer of toolshed (src/routes.js): the live        *)
(* delivery bus for direct messages (unixListeners, messageCreated, the    *)
(* websocket route), the conversation index (GET /inbox, GET /inbox/:id),  *)
(* the listing search and the delete routes for tools and listings.        *)
(***************************************************************************)
EXTENDS Integers, Sequences, FiniteSets, TLC

VARIABLES
    unixListeners,  \* the process-wide subscriber list: handleData closures, in push order
    nextConn,       \* number of websocket connections accepted so far
    userMessages,   \* the UserMessage table, in creation order
    tools,          \* the Tool table, indexed by primary key
    listings,       \* the Listing table, indexed by primary key
    geocoded,       \* users whose Address row has resolved coordinates
    response        \* what the last request or event did (its reply and its effects)

vars == <<unixListeners, nextConn, userMessages, tools, listings, geocoded, response>>

busVars == <<unixListeners, nextConn>>
marketVars == <<tools, listings, geocoded>>

(***************************************************************************)
(* Bounds of the model.                                                    *)
(***************************************************************************)
NUsers == 2         \* users that send messages, open sockets, own tools
MaxConns == 2       \* websocket connections accepted in one run
MaxMsgs == 2        \* rows created in the UserMessage table in one run
MaxTools == 2       \* rows created in the Tool table in one run
MaxListings == 2    \* rows created in the Listing table in one run

Users == 1..NUsers
NoUser == 0         \* req.user of a request that carries no valid session
Undefined == -1     \* the value of a property that the object does not have

NoResponse == [op |-> "none"]

(***************************************************************************)
(* JavaScript array helpers, as Array.prototype defines them.              *)
(***************************************************************************)
RECURSIVE IndexFrom(_, _, _)
IndexFrom(arr, id, i) ==
    IF i > Len(arr) THEN -1
    ELSE IF arr[i].id = id THEN i - 1
    ELSE IndexFrom(arr, id, i + 1)

\* arr.indexOf(f): zero-based position of the closure of connection `id`, or -1.
IndexOf(arr, id) == IndexFrom(arr, id, 1)

\* arr.splice(start, 1): a negative start counts from the end of the array.
Splice(arr, start) ==
    LET len == Len(arr)
        s0 == IF start < 0 THEN (IF len + start < 0 THEN 0 ELSE len + start)
              ELSE (IF start > len THEN len ELSE start)
    IN IF s0 >= len THEN arr
       ELSE [i \in 1..(len - 1) |-> IF i <= s0 THEN arr[i] ELSE arr[i + 1]]

RECURSIVE CountIn(_, _)
CountIn(s, x) ==
    IF s = <<>> THEN 0
    ELSE (IF Head(s) = x THEN 1 ELSE 0) + CountIn(Tail(s), x)

(***************************************************************************)
(* Live delivery bus.                                                      *)
(***************************************************************************)
\* handleData: reading req.user.id throws a TypeError when req.user is not set;
\* otherwise the message goes out on the socket when the recipient is the user.
HandleData(h, msg) ==
    IF h.user = NoUser THEN "throw"
    ELSE IF msg.recipient_id = h.user THEN "send"
    ELSE "skip"

RECURSIVE FanOut(_, _, _, _)
FanOut(ls, msg, i, sentTo) ==
    IF i > Len(ls) THEN [delivered |-> sentTo, threw |-> FALSE]
    ELSE LET r == HandleData(ls[i], msg)
         IN IF r = "throw" THEN [delivered |-> sentTo, threw |-> TRUE]
            ELSE FanOut(ls, msg, i + 1,
                        IF r = "send" THEN Append(sentTo, ls[i].id) ELSE sentTo)

\* UserMessage.messageCreated: calls every listener in list order; an exception
\* of a listener leaves the loop.  `delivered` lists the connections whose
\* ws.send was called, in call order.
MessageCreated(ls, msg) == FanOut(ls, msg, 1, <<>>)

\* The close listener without its `idx !== -1` test.
CloseListenerUnguarded(ls, id) == Splice(ls, IndexOf(ls, id))

\* The close listener of the websocket route.
CloseListener(ls, id) ==
    LET idx == IndexOf(ls, id)
    IN IF idx # -1 THEN Splice(ls, idx) ELSE ls

\* app.ws('/websocket/inbox/:user_id'): the route is not behind requiresAuth
\* and does not read :user_id; the closure is bound to req.user.
WsConnect(u) ==
    /\ nextConn < MaxConns
    /\ nextConn' = nextConn + 1
    /\ unixListeners' = Append(unixListeners, [id |-> nextConn + 1, user |-> u])
    /\ response' = [op |-> "connect", conn |-> nextConn + 1]
    /\ UNCHANGED <<userMessages, marketVars>>

\* ws.on('close') of connection c runs.
WsClose(c) ==
    /\ c \in 1..nextConn
    /\ unixListeners' = CloseListener(unixListeners, c)
    /\ response' = [op |-> "close", conn |-> c, before |-> unixListeners]
    /\ UNCHANGED <<nextConn, userMessages, marketVars>>

(***************************************************************************)
(* Sending a message.                                                      *)
(***************************************************************************)
\* UserMessage.create: the row is stored and the model announces it by one call
\* of UserMessage.messageCreated; an exception of that call rejects create.
\* Rows get distinct, increasing createdAt values; `content` plays no part in
\* routing or grouping and is left out.
UserMessageCreate(table, ls, sender, recipient) ==
    LET msg == [id |-> Len(table) + 1, sender_id |-> sender,
                recipient_id |-> recipient, createdAt |-> Len(table) + 1]
        pub == MessageCreated(ls, msg)
    IN [table |-> Append(table, msg), message |-> msg, published |-> 1,
        delivered |-> pub.delivered, threw |-> pub.threw]

\* app.post('/inbox/:user_id/send.json'), behind requiresAuth.
SendMessage(sender, recipient, dbOk) ==
    /\ Len(userMessages) < MaxMsgs
    /\ IF dbOk
       THEN LET c == UserMessageCreate(userMessages, unixListeners, sender, recipient)
            IN /\ userMessages' = c.table
               /\ response' = [op |-> "send", created |-> TRUE,
                               status |-> IF c.threw THEN "failure" ELSE "ok",
                               message |-> c.message, published |-> c.published,
                               listeners |-> unixListeners,
                               delivered |-> c.delivered, threw |-> c.threw]
       ELSE /\ userMessages' = userMessages
            /\ response' = [op |-> "send", created |-> FALSE, status |-> "failure",
                            published |-> 0, listeners |-> unixListeners,
                            delivered |-> <<>>, threw |-> FALSE]
    /\ UNCHANGED <<busVars, marketVars>>

(***************************************************************************)
(* Conversation index.                                                     *)
(***************************************************************************)
RECURSIVE OrderByCreatedAt(_)
OrderByCreatedAt(S) ==
    IF S = {} THEN <<>>
    ELSE LET first == CHOOSE m \in S : \A n \in S : m.createdAt <= n.createdAt
         IN <<first>> \o OrderByCreatedAt(S \ {first})

Rows(table) == {table[i] : i \in 1..Len(table)}

\* The findAll of GET /inbox.
InboxMessages(u, table) ==
    OrderByCreatedAt({m \in Rows(table) : m.recipient_id = u \/ m.sender_id = u})

\* A grouping key that is always the recipient.
OtherIdRecipient(m, u) == m.recipient_id

\* The key of the grouping loop: the party of m that is not u.
OtherId(m, u) == IF m.recipient_id = u THEN m.sender_id ELSE m.recipient_id

\* The grouping loop of GET /inbox: `messages` maps a key to its array.
RECURSIVE GroupLoop(_, _, _, _)
GroupLoop(all, u, i, messages) ==
    IF i > Len(all) THEN messages
    ELSE LET m == all[i]
             k == OtherId(m, u)
             arr == IF k \in DOMAIN messages THEN messages[k] ELSE <<>>
         IN GroupLoop(all, u, i + 1,
                      [x \in (DOMAIN messages) \cup {k} |->
                          IF x = k THEN Append(arr, m) ELSE messages[x]])

RECURSIVE EntriesOf(_, _)
EntriesOf(messages, keys) ==
    IF keys = {} THEN <<>>
    ELSE LET k == CHOOSE x \in keys : \A y \in keys : x <= y
         IN <<[with |-> k, messages |-> messages[k]]>> \o EntriesOf(messages, keys \ {k})

\* The conversations array of GET /inbox (Object.entries lists integer keys
\* in ascending order).
Conversations(u, table) ==
    LET messages == GroupLoop(InboxMessages(u, table), u, 1, <<>>)
    IN EntriesOf(messages, DOMAIN messages)

\* The findAll of GET /inbox/:user_id.
ThreadMessages(u, userId, table) ==
    OrderByCreatedAt({m \in Rows(table) :
        /\ (m.recipient_id = u \/ m.sender_id = u)
        /\ (m.recipient_id = userId \/ m.sender_id = userId)})

\* app.get('/inbox'), behind requiresAuth.
GetInbox(u) ==
    /\ response' = [op |-> "inbox", user |-> u,
                    conversations |-> Conversations(u, userMessages)]
    /\ UNCHANGED <<busVars, userMessages, marketVars>>

\* app.get('/inbox/:user_id'), behind requiresAuth.
GetThread(u, userId) ==
    /\ response' = [op |-> "thread", user |-> u, user_id |-> userId,
                    messages |-> ThreadMessages(u, userId, userMessages)]
    /\ UNCHANGED <<busVars, userMessages, marketVars>>

(***************************************************************************)
(* Users, addresses and tools of the search scenarios.  Every address lies *)
(* on the equator, so a position is its longitude in whole degrees.        *)
(***************************************************************************)
AddressBook ==
    (1 :> [hasAddress |-> TRUE,  lon |-> 0, resolved |-> TRUE ]) @@
    (2 :> [hasAddress |-> TRUE,  lon |-> 1, resolved |-> TRUE ]) @@
    (3 :> [hasAddress |-> TRUE,  lon |-> 2, resolved |-> FALSE]) @@
    (4 :> [hasAddress |-> FALSE, lon |-> 0, resolved |-> FALSE])

Accounts == DOMAIN AddressBook
InitiallyGeocoded == {u \in Accounts : AddressBook[u].resolved}

DrillPress == {"drill", "press"}     \* search vector of a tool named "Drill Press"
Hammer == {"hammer"}                 \* search vector of a tool named "Hammer"

ToolRow(owner, vector) == [exists |-> TRUE, owner_id |-> owner, vector |-> vector]
DestroyedRow == [exists |-> FALSE, owner_id |-> NoUser, vector |-> {}]

SearchTools == << ToolRow(1, DrillPress), ToolRow(2, Hammer), ToolRow(4, DrillPress) >>

Queries == {"", "drill"}     \* searchQuery: absent/empty, or one token
Radii == {111, 250}          \* searchRadius, kilometres
OriginLons == {0, 2}         \* userLon, degrees (userLat is 0)

(***************************************************************************)
(* Tools and listings.                                                     *)
(***************************************************************************)
ToolExists(tbl, t) == t \in 1..Len(tbl) /\ tbl[t].exists
ListingExists(tbl, l) == l \in 1..Len(tbl) /\ tbl[l].exists

\* app.post('/api/tools/new'), behind requiresAuth.
CreateTool(u, vector) ==
    /\ Len(tools) < MaxTools
    /\ tools' = Append(tools, ToolRow(u, vector))
    /\ response' = [op |-> "createTool", tool |-> Len(tools) + 1]
    /\ UNCHANGED <<busVars, userMessages, listings, geocoded>>

\* app.post('/api/listings/new'), behind requiresAuth.  The route does not set
\* `active`; the row gets the value the schema gives it.
CreateListing(toolId, active) ==
    /\ Len(listings) < MaxListings
    /\ ToolExists(tools, toolId)
    /\ listings' = Append(listings, [exists |-> TRUE, tool_id |-> toolId, active |-> active])
    /\ response' = [op |-> "createListing", listing |-> Len(listings) + 1]
    /\ UNCHANGED <<busVars, userMessages, tools, geocoded>>

\* The ownership guard with its comparison inverted.
ToolDeleteForbiddenInverted(tool, u) == tool.owner_id = u

\* The guard `tool.owner_id !== req.user.id` of DELETE /api/tools/:tool_id.
ToolDeleteForbidden(tool, u) == tool.owner_id # u

\* listing.owner_id: the route creates listings without an owner_id attribute.
ListingOwnerId(listing) == Undefined

\* The guard `listing.owner_id !== req.user.id` of DELETE /api/listings/:listing_id.
ListingDeleteForbidden(listing, u) == ListingOwnerId(listing) # u

\* app.delete('/api/tools/:tool_id'), behind requiresAuth.
DeleteTool(u, t) ==
    /\ LET found == ToolExists(tools, t)
           forbidden == found /\ ToolDeleteForbidden(tools[t], u)
           destroy == found /\ ~forbidden
       IN /\ tools' = IF destroy THEN [tools EXCEPT ![t] = DestroyedRow] ELSE tools
          /\ response' = [op |-> "deleteTool", user |-> u, target |-> t,
                          status |-> IF ~found THEN 404 ELSE IF forbidden THEN 401 ELSE 200,
                          destroyCalls |-> IF destroy THEN 1 ELSE 0,
                          toolsBefore |-> tools, listingsBefore |-> listings]
    /\ UNCHANGED <<busVars, userMessages, listings, geocoded>>

\* app.delete('/api/listings/:listing_id'), behind requiresAuth.
DeleteListing(u, l) ==
    /\ LET found == ListingExists(listings, l)
           forbidden == found /\ ListingDeleteForbidden(listings[l], u)
           destroy == found /\ ~forbidden
       IN /\ listings' = IF destroy
                         THEN [listings EXCEPT ![l] = [@ EXCEPT !.exists = FALSE]]
                         ELSE listings
          /\ response' = [op |-> "deleteListing", user |-> u, target |-> l,
                          status |-> IF ~found THEN 404 ELSE IF forbidden THEN 403 ELSE 200,
                          destroyCalls |-> IF destroy THEN 1 ELSE 0,
                          toolsBefore |-> tools, listingsBefore |-> listings]
    /\ UNCHANGED <<busVars, userMessages, tools, geocoded>>

(***************************************************************************)
(* Listing search.                                                         *)
(***************************************************************************)
EarthRadiusKm == 6371

Abs(x) == IF x < 0 THEN -x ELSE x

\* 6371 * acos(cos(lat1) cos(lat2) cos(lon1 - lon2) + sin(lat1) sin(lat2)) with
\* lat1 = lat2 = 0 is 6371 * |lon1 - lon2| * pi / 180; pi is taken as 355/113
\* and the result is cut to whole kilometres (d < r and floor(d) < r agree for
\* a whole r).
DistanceKm(lon1, lon2) == (EarthRadiusKm * 355 * Abs(lon1 - lon2)) \div (113 * 180)

\* A radius test that keeps the rows at exactly the radius.
WithinRadiusInclusive(d, radius) == d <= radius

\* The where clause of the address join: distanceKm < searchRadius.
WithinRadius(d, radius) == d < radius

\* searchVector @@ to_tsquery(searchQuery), for a query of one token.
Matches(vector, q) == q \in vector

\* The where clause of the tool join: no condition when searchQuery is empty.
ToolWhere(tool, q) == IF q = "" THEN TRUE ELSE Matches(tool.vector, q)

\* user.getAddress(): the user's Address row, if there is one.
GetAddress(u) == IF AddressBook[u].hasAddress THEN u ELSE NoUser

\* address.ensureGeocoded(): true when the row has coordinates, or when the
\* geocoder resolves them now (they are then saved with the row).
EnsureGeocoded(u, known, geoOk) == u \in known \/ geoOk

\* What the geocoder may answer: it is asked only for an address of the caller
\* that has no coordinates yet.
GeocoderOutcomes(u, useUserAddress, known) ==
    IF u # NoUser /\ useUserAddress /\ GetAddress(u) # NoUser /\ u \notin known
    THEN BOOLEAN ELSE {FALSE}

\* The origin of the search: the caller's own address when it is asked for and
\* has coordinates, the explicit userLat/userLon otherwise.
OriginLon(u, useUserAddress, userLon, known, geoOk) ==
    IF u # NoUser /\ useUserAddress /\ GetAddress(u) # NoUser
       /\ EnsureGeocoded(u, known, geoOk)
    THEN AddressBook[u].lon
    ELSE userLon

\* The rows of Listing.findAll: active listings joined to their tool (with its
\* where clause), the tool's owner and the owner's address (all required); an
\* address without coordinates has a NULL distance, which the where clause drops.
SearchRows(ltbl, ttbl, known, origin, radius, q) ==
    {l \in 1..Len(ltbl) :
        /\ ltbl[l].exists
        /\ ltbl[l].active
        /\ ToolExists(ttbl, ltbl[l].tool_id)
        /\ LET tool == ttbl[ltbl[l].tool_id]
           IN /\ ToolWhere(tool, q)
              /\ tool.owner_id \in Accounts
              /\ AddressBook[tool.owner_id].hasAddress
              /\ tool.owner_id \in known
              /\ WithinRadius(DistanceKm(origin, AddressBook[tool.owner_id].lon), radius)}

\* The orders in which the database may return a set of rows when the
\* statement has no ORDER BY (the `order` option of a joined include is not
\* part of the generated statement).
RowOrders(S) ==
    {s \in [1..Cardinality(S) -> S] : \A i, j \in 1..Cardinality(S) : s[i] = s[j] => i = j}

\* app.get('/api/listings/search.json').
Search(u, useUserAddress, userLon, radius, q) ==
    \E geoOk \in GeocoderOutcomes(u, useUserAddress, geocoded) :
        LET resolves == u # NoUser /\ useUserAddress /\ GetAddress(u) # NoUser
                        /\ EnsureGeocoded(u, geocoded, geoOk)
            known == IF resolves THEN geocoded \cup {u} ELSE geocoded
            origin == OriginLon(u, useUserAddress, userLon, geocoded, geoOk)
            rows == SearchRows(listings, tools, known, origin, radius, q)
        IN /\ geocoded' = known
           /\ \E order \in RowOrders(rows) :
                response' = [op |-> "search", user |-> u,
                             useUserAddress |-> useUserAddress, userLon |-> userLon,
                             searchRadius |-> radius, searchQuery |-> q,
                             origin |-> origin,
                             results |-> [i \in 1..Len(order) |->
                                [id |-> order[i],
                                 distance |-> DistanceKm(origin,
                                    AddressBook[tools[listings[order[i]].tool_id].owner_id].lon)]]]
           /\ UNCHANGED <<busVars, userMessages, tools, listings>>

(***************************************************************************)
(* Specifications.                                                         *)
(***************************************************************************)
Init ==
    /\ unixListeners = <<>>
    /\ nextConn = 0
    /\ userMessages = <<>>
    /\ tools = <<>>
    /\ listings = <<>>
    /\ geocoded = InitiallyGeocoded
    /\ response = NoResponse

NextBus ==
    \/ \E u \in Users \cup {NoUser} : WsConnect(u)
    \/ \E c \in 1..MaxConns : WsClose(c)
    \/ \E s \in Users, r \in Users, ok \in BOOLEAN : SendMessage(s, r, ok)

SpecBus == Init /\ [][NextBus]_vars

NextInbox ==
    \/ \E s \in Users, r \in Users, ok \in BOOLEAN : SendMessage(s, r, ok)
    \/ \E u \in Users : GetInbox(u)
    \/ \E u \in Users, b \in Users : GetThread(u, b)

SpecInbox == Init /\ [][NextInbox]_vars

NextMarket ==
    \/ \E u \in Users : CreateTool(u, DrillPress)
    \/ \E t \in 1..MaxTools, a \in BOOLEAN : CreateListing(t, a)
    \/ \E u \in Users, t \in 1..MaxTools : DeleteTool(u, t)
    \/ \E u \in Users, l \in 1..MaxListings : DeleteListing(u, l)

SpecMarket == Init /\ [][NextMarket]_vars

InitSearch ==
    /\ unixListeners = <<>>
    /\ nextConn = 0
    /\ userMessages = <<>>
    /\ tools = SearchTools
    /\ listings = <<>>
    /\ geocoded = InitiallyGeocoded
    /\ response = NoResponse

NextSearch ==
    \/ \E t \in 1..Len(SearchTools), a \in BOOLEAN : CreateListing(t, a)
    \/ \E u \in Accounts \cup {NoUser}, useUserAddress \in BOOLEAN, userLon \in OriginLons,
          radius \in Radii, q \in Queries :
            Search(u, useUserAddress, userLon, radius, q)

SpecSearch == InitSearch /\ [][NextSearch]_vars

(***************************************************************************)
(* Properties of the live delivery bus.                                    *)
(***************************************************************************)
HandlersOf(ls) == {ls[i] : i \in 1..Len(ls)}

\* C1: one call of messageCreated(m) makes every subscribed handler whose
\* user is m.recipient_id send m exactly once, and no other handler send it.
C1_DeliversOncePerRecipientHandler ==
    (response.op = "send" /\ response.published = 1) =>
        \A h \in HandlersOf(response.listeners) :
            CountIn(response.delivered, h.id) =
                IF h.user = response.message.recipient_id THEN 1 ELSE 0

\* C2: when one handler throws during a publish, every other subscribed
\* handler of the recipient still receives the message.
C2_FailureDoesNotStopDelivery ==
    (response.op = "send" /\ response.published = 1 /\ response.threw) =>
        \A h \in HandlersOf(response.listeners) :
            (h.user # NoUser /\ h.user = response.message.recipient_id)
                => CountIn(response.delivered, h.id) >= 1

\* C3: a successful creation publishes exactly once and a failed one never,
\* so a recipient with an open websocket at send time gets the message once.
C3_SendPublishesOnceAndDelivers ==
    response.op = "send" =>
        /\ response.published = (IF response.created THEN 1 ELSE 0)
        /\ response.created =>
             \A h \in HandlersOf(response.listeners) :
                 h.user = response.message.recipient_id
                     => CountIn(response.delivered, h.id) = 1

SecondClose ==
    /\ response.op = "close"
    /\ IndexOf(response.before, response.conn) = -1

\* C4: the close step of a handler that is no longer in the list leaves the
\* list as it was (same handlers, same order), so a publish reaches the same
\* handlers after it as before it.
C4_SecondCloseChangesNothing ==
    SecondClose =>
        /\ unixListeners = response.before
        /\ \A s \in Users, r \in Users :
             LET m == [id |-> 0, sender_id |-> s, recipient_id |-> r, createdAt |-> 0]
             IN MessageCreated(unixListeners, m) = MessageCreated(response.before, m)

C4_Witness == SecondClose /\ Len(response.before) >= 1 /\ unixListeners = response.before

(***************************************************************************)
(* Properties of the conversation index.                                   *)
(***************************************************************************)
RECURSIVE Occurrences(_, _)
Occurrences(convs, m) ==
    IF convs = <<>> THEN 0
    ELSE CountIn(Head(convs).messages, m) + Occurrences(Tail(convs), m)

Involves(m, u) == m.sender_id = u \/ m.recipient_id = u

InboxCoversExactly ==
    /\ \A m \in Rows(userMessages) :
         Occurrences(response.conversations, m) = IF Involves(m, response.user) THEN 1 ELSE 0
    /\ \A i, j \in 1..Len(response.conversations) :
         response.conversations[i].with = response.conversations[j].with => i = j

\* C5 as stated: the conversations of GET /inbox for U hold each message of U
\* exactly once, nothing else, and none of them is keyed by U.
C5_PartitionNeverKeyedBySelf ==
    response.op = "inbox" =>
        /\ InboxCoversExactly
        /\ \A i \in 1..Len(response.conversations) :
             response.conversations[i].with # response.user

\* C5 as amended: the conversations of GET /inbox for U hold each message of U
\* exactly once and nothing else; every message of the conversation keyed by K
\* is between U and K, so the conversation keyed by U holds exactly the
\* messages U sent to itself.
C5_PartitionByCounterparty ==
    response.op = "inbox" =>
        /\ InboxCoversExactly
        /\ \A i \in 1..Len(response.conversations) :
             LET c == response.conversations[i]
             IN /\ c.messages # <<>>
                /\ \A k \in 1..Len(c.messages) :
                     {c.messages[k].sender_id, c.messages[k].recipient_id}
                         = {response.user, c.with}

C5_Witness ==
    /\ response.op = "inbox"
    /\ \E i, j \in 1..Len(response.conversations) :
         /\ response.conversations[i].with = response.user
         /\ response.conversations[j].with # response.user

RECURSIVE IsSubsequence(_, _)
IsSubsequence(a, b) ==
    IF a = <<>> THEN TRUE
    ELSE IF b = <<>> THEN FALSE
    ELSE IF Head(a) = Head(b) THEN IsSubsequence(Tail(a), Tail(b))
    ELSE IsSubsequence(a, Tail(b))

ConversationWith(u, k, table) ==
    LET convs == Conversations(u, table)
        hit == {i \in 1..Len(convs) : convs[i].with = k}
    IN IF hit = {} THEN <<>> ELSE convs[CHOOSE i \in hit : TRUE].messages

\* C6: the messages of GET /inbox/:user_id for A and B are a subsequence, in
\* the same order, of the conversation GET /inbox builds for A under key B.
C6_ThreadWithinConversation ==
    response.op = "thread" =>
        IsSubsequence(response.messages,
                      ConversationWith(response.user, response.user_id, userMessages))

(***************************************************************************)
(* Properties of the listing search.                                       *)
(***************************************************************************)
ResultIds == {response.results[i].id : i \in 1..Len(response.results)}

OwnerOf(l) == tools[listings[l].tool_id].owner_id

Expected(l) ==
    /\ listings[l].active
    /\ (response.searchQuery = "" \/ response.searchQuery \in tools[listings[l].tool_id].vector)
    /\ DistanceKm(response.origin, AddressBook[OwnerOf(l)].lon) < response.searchRadius

\* C7: a listing whose owner's address has coordinates is returned iff it is
\* active, its tool matches the query (or there is none) and its distance from
\* the origin is strictly below the radius; a listing whose owner has no
\* address is never returned.
C7_SearchReturnsExactly ==
    response.op = "search" =>
        \A l \in 1..Len(listings) :
            /\ (AddressBook[OwnerOf(l)].hasAddress /\ OwnerOf(l) \in geocoded)
                   => (l \in ResultIds <=> Expected(l))
            /\ ~AddressBook[OwnerOf(l)].hasAddress => l \notin ResultIds

C7_Witness ==
    /\ response.op = "search"
    /\ ResultIds # {}
    /\ \E l \in 1..Len(listings) :
         /\ listings[l].active
         /\ OwnerOf(l) \in geocoded
         /\ DistanceKm(response.origin, AddressBook[OwnerOf(l)].lon) = response.searchRadius
         /\ l \notin ResultIds

\* C8: the results are in ascending order of distance from the origin.
C8_ResultsAscendingByDistance ==
    response.op = "search" =>
        \A i, j \in 1..Len(response.results) :
            i < j => response.results[i].distance <= response.results[j].distance

\* C9: a caller who asks for their own address as the origin gets an empty
\* result when that address cannot be geocoded, and a search around that
\* address, whatever userLat/userLon say, when it can.
C9_OwnAddressOrigin ==
    (response.op = "search" /\ response.user # NoUser /\ response.useUserAddress
        /\ GetAddress(response.user) # NoUser) =>
        IF response.user \in geocoded
        THEN response.origin = AddressBook[response.user].lon
        ELSE response.results = <<>>

(***************************************************************************)
(* Properties of the delete routes.                                        *)
(***************************************************************************)
DeleteOfAnothersTool ==
    /\ response.op = "deleteTool"
    /\ ToolExists(response.toolsBefore, response.target)
    /\ response.toolsBefore[response.target].owner_id # response.user

DeleteOfAnothersListing ==
    /\ response.op = "deleteListing"
    /\ ListingExists(response.listingsBefore, response.target)
    /\ LET t == response.listingsBefore[response.target].tool_id
       IN ~(ToolExists(response.toolsBefore, t)
            /\ response.toolsBefore[t].owner_id = response.user)

\* C10: a delete of a tool, or of a listing, by a user who does not own the
\* tool is answered with an error, calls no destroy and leaves the stored
\* tools and listings as they were.
C10_ForeignDeleteRejected ==
    (DeleteOfAnothersTool \/ DeleteOfAnothersListing) =>
        /\ response.status >= 400
        /\ response.destroyCalls = 0
        /\ tools = response.toolsBefore
        /\ listings = response.listingsBefore

C10_Witness ==
    /\ DeleteOfAnothersTool
    /\ response.status = 401
    /\ \E l \in 1..Len(listings) : listings[l].exists

====
